---------------------------- MODULE Spec2Model ----------------------------
(***************************************************************************)
(* Model of kofc7186/print-client, src/main.py: the Pub/Sub subscription   *)
(* callback received_message_to_print and what it calls.                   *)
(*                                                                         *)
(* One logical message (attributes, data) is published; the transport      *)
(* delivers it up to MaxDeliveries times (at-least-once delivery), with at *)
(* most max_messages callbacks in flight.  Each delivery runs the callback *)
(* step by step: validate, filter, temp file, decode, close, print,        *)
(* __exit__, ack.                                                          *)
(***************************************************************************)
EXTENDS Integers, Sequences, FiniteSets

VARIABLES
    ARGS,         \* main.ARGS: the argparse namespace [printer, number]
    message,      \* the published message: [attributes, data, message_id]
    print_queue,  \* the firestore collection events/<event>/print_queue
    printer,      \* whether the print command exits with 0 ("ok") or not ("failing")
    firestore,    \* whether the store answers: "ok", "where_fails" or "add_fails"
    system,       \* what main() finds: platform, environment, subscriptions, wmic, argv
    Printers_instance,  \* Printers._instance: << >> for None, else <<[printers, default_printer]>>
    proc,         \* main(): where it is and the exception that ended it
    calls,        \* the constructions Printers() made so far, in order
    inv           \* inv[i]: the i-th delivery's invocation of the callback

vars == <<ARGS, message, print_queue, printer, firestore, system,
          Printers_instance, proc, calls, inv>>

\* what the callback never assigns
others == <<ARGS, message, print_queue, printer, firestore, system,
            Printers_instance, proc, calls>>

-----------------------------------------------------------------------------
(* Bounds *)

\* number of deliveries of the message the transport makes
MaxDeliveries == 2

-----------------------------------------------------------------------------
(* Program constants *)

\* FlowControl(max_messages=5), main.py:116
max_messages == 5

\* time.sleep(3) after a failed print, main.py:254
SLEEP_SECONDS == 3

-----------------------------------------------------------------------------
(* Messages *)

\* the value of a name that was never bound / a key that is not in a dict
Unbound == "<unbound>"

AttributeKeys == {"event_id", "order_number", "reprint", "another_attr"}

EventIdValues == {"test_integration"}
OrderNumberValues == {"-3", "0", "1234", "5679", "not_a_number"}
ReprintValues == {"True", ""}
AnotherValues == {"abc123"}

\* a dict of attributes: a function from the keys present to their strings
AttributesOf(e, o, r, a) ==
    [k \in {x \in AttributeKeys :
                \/ x = "event_id" /\ e # Unbound
                \/ x = "order_number" /\ o # Unbound
                \/ x = "reprint" /\ r # Unbound
                \/ x = "another_attr" /\ a # Unbound}
        |-> CASE k = "event_id" -> e
              [] k = "order_number" -> o
              [] k = "reprint" -> r
              [] OTHER -> a]

AttributeSets ==
    { AttributesOf(e, o, r, a) :
        e \in EventIdValues \cup {Unbound},
        o \in OrderNumberValues \cup {Unbound},
        r \in ReprintValues \cup {Unbound},
        a \in AnotherValues \cup {Unbound} }

\* dict.get(key, None)
Get(attributes, key) ==
    IF key \in DOMAIN attributes THEN attributes[key] ELSE Unbound

\* message.data: bytes, written here one character per element
Payloads ==
    { <<"M", "T", "I", "z", "N", "A", "=", "=">>,   \* b64encode(b'1234')
      <<"%", "2", "3", "4">>,                       \* b'%234' of test_non_base64_data
      <<"M", "T", "%", "I", "z">>,                  \* a stray byte inside valid data
      <<"M", "T", "I", "z", "N">> }                 \* one data character too many

-----------------------------------------------------------------------------
(* base64.b64decode(s) with validate=False, i.e. binascii.a2b_base64 *)

BASE64_PAD == "="

\* the decoding table: the 6-bit value of a character of the alphabet, 64 otherwise
b64_table(c) ==
    CASE c = "A" -> 0
      [] c = "I" -> 8
      [] c = "M" -> 12
      [] c = "N" -> 13
      [] c = "T" -> 19
      [] c = "z" -> 51
      [] c = "2" -> 54
      [] c = "3" -> 55
      [] c = "4" -> 56
      [] OTHER -> 64

binascii_Error == "binascii.Error"

RECURSIVE a2b_base64(_, _, _, _, _, _)
a2b_base64(s, idx, quad_pos, leftchar, pads, out) ==
    IF idx > Len(s)
    THEN IF quad_pos # 0 THEN binascii_Error ELSE out
    ELSE LET c == s[idx]
             this_ch == b64_table(c)
         IN  IF c = BASE64_PAD
             THEN IF quad_pos >= 2 /\ quad_pos + pads + 1 >= 4
                  THEN out
                  ELSE a2b_base64(s, idx + 1, quad_pos, leftchar,
                                  IF quad_pos >= 2 THEN pads + 1 ELSE pads, out)
             ELSE IF this_ch >= 64
             THEN a2b_base64(s, idx + 1, quad_pos, leftchar, pads, out)
             ELSE CASE quad_pos = 0 ->
                         a2b_base64(s, idx + 1, 1, this_ch, 0, out)
                    [] quad_pos = 1 ->
                         a2b_base64(s, idx + 1, 2, this_ch % 16, 0,
                                    Append(out, leftchar * 4 + this_ch \div 16))
                    [] quad_pos = 2 ->
                         a2b_base64(s, idx + 1, 3, this_ch % 4, 0,
                                    Append(out, leftchar * 16 + this_ch \div 4))
                    [] OTHER ->
                         a2b_base64(s, idx + 1, 0, 0, 0,
                                    Append(out, leftchar * 64 + this_ch))

b64decode(s) == a2b_base64(s, 1, 0, 0, 0, << >>)

-----------------------------------------------------------------------------
(* validate_message_attributes: raises ValueError iff the dict is empty *)

\* mutant: the emptiness test is dropped
validate_message_attributes_NoCheck(msg) == "ok"

validate_message_attributes(msg) ==
    IF DOMAIN msg.attributes = {} THEN "ValueError" ELSE "ok"

\* the test of lines 202-203 on an integer order number: TRUE when the message
\* is skipped.  Python's % takes the sign of the divisor, as TLA+'s does.
filter_skips(order_number, number) ==
    \/ order_number % 2 = 0 /\ number # "even"
    \/ order_number % 2 = 1 /\ number # "odd"

-----------------------------------------------------------------------------
(* The callback's invocations *)

\* subprocess.run(print_cmd, shell=True, check=True): raises CalledProcessError
\* when the command exits with a non-zero status
subprocess_run(status) ==
    IF status = "ok" THEN "ok" ELSE "CalledProcessError"

\* Python's None
None == "None"

\* subprocess.check_output of wmic: it raised, or the rows csv.DictReader
\* yields from its output
WMIC_OUTPUT_ONE_DEFAULT ==
    [raised |-> FALSE,
     rows |-> << [Name |-> "Fax", Default |-> "FALSE"],
                 [Name |-> "Dymo LabelMaker 450 Turbo", Default |-> "TRUE"],
                 [Name |-> "Microsoft Print to PDF", Default |-> "FALSE"] >>]

\* the Printers singleton the tests of the callback install
MockPrinters ==
    << [printers |-> <<"default_printer", "good_printer">>,
        default_printer |-> "default_printer"] >>

\* the system on which main() got as far as subscribing
StartedSystem ==
    [platform |-> "Windows", GOOGLE_APPLICATION_CREDENTIALS |-> "path.json",
     subscription_exists |-> TRUE, wmic |-> WMIC_OUTPUT_ONE_DEFAULT,
     args |-> [p |-> None, n |-> None, l |-> None]]

Deliveries == 1 .. MaxDeliveries

\* where an invocation is
Running == {"validate", "filter", "enter", "write", "close", "print", "exit"}
Ended == {"returned", "raised"}

NotDelivered ==
    [pc |-> "undelivered", acks |-> 0, nacks |-> 0, prints |-> 0, slept |-> 0,
     order_number |-> Unbound, file |-> "none", on_disk |-> FALSE,
     content |-> << >>, flushed |-> << >>, printed_file |-> None,
     after |-> "none", error |-> "none"]

InFlight == {i \in Deliveries : inv[i].pc \in Running}

Init ==
    /\ ARGS \in [printer : {"default_printer"}, number : {"all", "even", "odd"}]
    /\ message \in [attributes : AttributeSets, data : Payloads,
                    message_id : {"message_id"}]
    /\ firestore \in {"ok", "where_fails", "add_fails"}
    /\ print_queue \in IF firestore = "ok"
                       THEN {{}, {[order_number |-> 1234, message_id |-> "12345"]}}
                       ELSE {{}}
    /\ printer \in {"ok", "failing"}
    /\ system = StartedSystem
    /\ Printers_instance = MockPrinters
    /\ proc = [pc |-> "listening", error |-> "none"]
    /\ calls = << >>
    /\ inv = [i \in Deliveries |-> NotDelivered]

\* the transport hands the next delivery of the message to the callback
\* (subscribe with flow control, main.py:115-116); line 189 only logs
Deliver(i) ==
    /\ inv[i].pc = "undelivered"
    /\ \A j \in Deliveries : j < i => inv[j].pc # "undelivered"
    /\ proc.pc = "listening"
    /\ Cardinality(InFlight) < max_messages
    /\ inv' = [inv EXCEPT ![i].pc = "validate"]
    /\ UNCHANGED others

\* mutant: a message another invocation has already taken is acknowledged
\* at once from an in-process record of what was seen
Validate_SeenBefore(i) ==
    /\ inv[i].pc = "validate"
    /\ IF \/ validate_message_attributes(message) # "ok"
          \/ \E j \in Deliveries \ {i} : inv[j].pc \notin {"undelivered", "validate"}
       THEN inv' = [inv EXCEPT ![i].acks = @ + 1, ![i].pc = "returned"]
       ELSE inv' = [inv EXCEPT ![i].pc = "filter"]
    /\ UNCHANGED others

\* lines 191-195
Validate(i) ==
    /\ inv[i].pc = "validate"
    /\ IF validate_message_attributes(message) # "ok"
       THEN inv' = [inv EXCEPT ![i].acks = @ + 1, ![i].pc = "returned"]
       ELSE inv' = [inv EXCEPT ![i].pc = "filter"]
    /\ UNCHANGED others

\* lines 201-206; order_number is read but never assigned in the function
Filter(i) ==
    /\ inv[i].pc = "filter"
    /\ IF ARGS.number # "all"
       THEN IF inv[i].order_number = Unbound
            THEN inv' = [inv EXCEPT ![i].pc = "raised", ![i].error = "NameError"]
            ELSE IF filter_skips(inv[i].order_number, ARGS.number)
                 THEN inv' = [inv EXCEPT ![i].nacks = @ + 1, ![i].pc = "returned"]
                 ELSE inv' = [inv EXCEPT ![i].pc = "enter"]
       ELSE inv' = [inv EXCEPT ![i].pc = "enter"]
    /\ UNCHANGED others

\* WinNamedTempFile.__enter__, lines 138-140 (with statement, line 226)
WinNamedTempFile_enter(i) ==
    /\ inv[i].pc = "enter"
    /\ inv' = [inv EXCEPT ![i].file = "open", ![i].on_disk = TRUE,
                          ![i].content = << >>, ![i].flushed = << >>,
                          ![i].pc = "write"]
    /\ UNCHANGED others

\* mutant: the message is acknowledged as soon as its payload is decoded
Write_AckEarly(i) ==
    /\ inv[i].pc = "write"
    /\ LET decoded == b64decode(message.data)
       IN  IF decoded = binascii_Error
           THEN inv' = [inv EXCEPT ![i].acks = @ + 1, ![i].after = "return",
                                   ![i].pc = "exit"]
           ELSE inv' = [inv EXCEPT ![i].acks = @ + 1, ![i].content = decoded,
                                   ![i].pc = "close"]
    /\ UNCHANGED others

\* lines 228-233
Write(i) ==
    /\ inv[i].pc = "write"
    /\ LET decoded == b64decode(message.data)
       IN  IF decoded = binascii_Error
           THEN inv' = [inv EXCEPT ![i].acks = @ + 1, ![i].after = "return",
                                   ![i].pc = "exit"]
           ELSE inv' = [inv EXCEPT ![i].content = decoded, ![i].pc = "close"]
    /\ UNCHANGED others

\* mutant: closing the temporary file deletes it (delete=True)
Close_Deletes(i) ==
    /\ inv[i].pc = "close"
    /\ inv' = [inv EXCEPT ![i].file = "closed", ![i].flushed = inv[i].content,
                          ![i].on_disk = FALSE, ![i].pc = "print"]
    /\ UNCHANGED others

\* mutant: the ledger record is written when the file is closed, before the
\* print command is run
Close_Records(i) ==
    /\ inv[i].pc = "close"
    /\ inv' = [inv EXCEPT ![i].file = "closed", ![i].flushed = inv[i].content,
                          ![i].pc = "print"]
    /\ print_queue' = print_queue \cup
                        {[order_number |-> 1234, message_id |-> message.message_id]}
    /\ UNCHANGED <<ARGS, message, printer, firestore, system,
                   Printers_instance, proc, calls>>

\* mutant: closing the file also sets the ledger document of the order,
\* replacing the record the order already has
Close_Overwrites(i) ==
    /\ inv[i].pc = "close"
    /\ inv' = [inv EXCEPT ![i].file = "closed", ![i].flushed = inv[i].content,
                          ![i].pc = "print"]
    /\ print_queue' = {[order_number |-> r.order_number,
                        message_id |-> message.message_id] : r \in print_queue}
    /\ UNCHANGED <<ARGS, message, printer, firestore, system,
                   Printers_instance, proc, calls>>

\* line 236: close() flushes what was written and leaves the file on disk
\* (NamedTemporaryFile(delete=False), line 139)
Close(i) ==
    /\ inv[i].pc = "close"
    /\ inv' = [inv EXCEPT ![i].file = "closed", ![i].flushed = inv[i].content,
                          ![i].pc = "print"]
    /\ UNCHANGED others

\* the file the print command is given: temp_file.name as it is on disk
FileSeen(i) ==
    [file |-> inv[i].file, on_disk |-> inv[i].on_disk, flushed |-> inv[i].flushed]

\* mutant: the command line of line 239 is built without order_number
PrintLabel_NoOrderNumber(i) ==
    /\ inv[i].pc = "print"
    /\ IF subprocess_run(printer) = "ok"
       THEN inv' = [inv EXCEPT ![i].prints = @ + 1,
                               ![i].printed_file = FileSeen(i),
                               ![i].after = "fall", ![i].pc = "exit"]
       ELSE inv' = [inv EXCEPT ![i].prints = @ + 1, ![i].nacks = @ + 1,
                               ![i].printed_file = FileSeen(i),
                               ![i].slept = @ + SLEEP_SECONDS,
                               ![i].after = "return", ![i].pc = "exit"]
    /\ UNCHANGED others

\* lines 238-255: the f-string of line 239 reads order_number before
\* subprocess.run is reached; only CalledProcessError is caught
PrintLabel(i) ==
    /\ inv[i].pc = "print"
    /\ IF inv[i].order_number = Unbound
       THEN inv' = [inv EXCEPT ![i].error = "NameError", ![i].after = "raise",
                               ![i].pc = "exit"]
       ELSE IF subprocess_run(printer) = "ok"
              THEN inv' = [inv EXCEPT ![i].prints = @ + 1,
                                      ![i].printed_file = FileSeen(i),
                                      ![i].after = "fall", ![i].pc = "exit"]
              ELSE inv' = [inv EXCEPT ![i].prints = @ + 1, ![i].nacks = @ + 1,
                                      ![i].printed_file = FileSeen(i),
                                      ![i].slept = @ + SLEEP_SECONDS,
                                      ![i].after = "return", ![i].pc = "exit"]
    /\ UNCHANGED others

\* mutant: __exit__ closes the file and leaves it on disk
WinNamedTempFile_exit_NoUnlink(i) ==
    /\ inv[i].pc = "exit"
    /\ inv' = [inv EXCEPT
                 ![i].file = "closed",
                 ![i].flushed = IF inv[i].file = "closed" THEN @ ELSE inv[i].content,
                 ![i].acks = IF inv[i].after = "fall" THEN @ + 1 ELSE @,
                 ![i].pc = IF inv[i].after = "raise" THEN "raised" ELSE "returned"]
    /\ UNCHANGED others

\* WinNamedTempFile.__exit__, lines 142-145: close the file if it is still
\* open, then unlink it; and what follows the with block: the pending return
\* or exception, or the ack of line 273
WinNamedTempFile_exit(i) ==
    /\ inv[i].pc = "exit"
    /\ inv' = [inv EXCEPT
                 ![i].file = "closed",
                 ![i].flushed = IF inv[i].file = "closed" THEN @ ELSE inv[i].content,
                 ![i].on_disk = FALSE,
                 ![i].acks = IF inv[i].after = "fall" THEN @ + 1 ELSE @,
                 ![i].pc = IF inv[i].after = "raise" THEN "raised" ELSE "returned"]
    /\ UNCHANGED others

Next ==
    \E i \in Deliveries :
        \/ Deliver(i)
        \/ Validate(i)
        \/ Filter(i)
        \/ WinNamedTempFile_enter(i)
        \/ Write(i)
        \/ Close(i)
        \/ PrintLabel(i)
        \/ WinNamedTempFile_exit(i)

Spec == Init /\ [][Next]_vars

-----------------------------------------------------------------------------
(* Printers, parse_command_line_args and main *)

WMIC_OUTPUT_NO_DEFAULT ==
    [raised |-> FALSE,
     rows |-> << [Name |-> "Fax", Default |-> "FALSE"],
                 [Name |-> "Dymo LabelMaker 450 Turbo", Default |-> "FALSE"],
                 [Name |-> "Microsoft Print to PDF", Default |-> "FALSE"] >>]

WMIC_OUTPUT_NO_PRINTERS == [raised |-> FALSE, rows |-> << >>]

\* subprocess.check_output raising CalledProcessError on a failing wmic
WMIC_ERROR == [raised |-> TRUE, rows |-> << >>]

\* lines 42-48: the names in order, and the name of the last row marked TRUE
RECURSIVE read_rows(_, _, _)
read_rows(rows, k, instance) ==
    IF k > Len(rows)
    THEN instance
    ELSE read_rows(rows, k + 1,
            [printers |-> Append(instance.printers, rows[k].Name),
             default_printer |-> IF rows[k].Default = "TRUE"
                                 THEN rows[k].Name
                                 ELSE instance.default_printer])

\* mutant: no test of cls._instance, every construction builds a new object
Printers_new_NoSingleton(instance, wmic) ==
    LET fresh == [printers |-> << >>, default_printer |-> None]
    IN  IF wmic.raised
        THEN [instance |-> <<fresh>>, raised |-> TRUE]
        ELSE [instance |-> <<read_rows(wmic.rows, 1, fresh)>>,
              raised |-> FALSE]

\* Printers.__new__, lines 31-49: the instance it leaves in Printers._instance
\* and whether it raised.  The new instance is stored in cls._instance
\* before wmic is run.
Printers_new(instance, wmic) ==
    IF instance # << >>
    THEN [instance |-> instance, raised |-> FALSE]
    ELSE LET fresh == [printers |-> << >>, default_printer |-> None]
         IN  IF wmic.raised
             THEN [instance |-> <<fresh>>, raised |-> TRUE]
             ELSE [instance |-> <<read_rows(wmic.rows, 1, fresh)>>,
                   raised |-> FALSE]

\* one construction Printers() as its caller sees it: whether wmic was
\* failing, whether wmic was run (line 37), whether the call raised, and the
\* object it returned (<< >> when it raised)
Construction(instance, wmic) ==
    LET made == Printers_new(instance, wmic)
    IN  [wmic_raised |-> wmic.raised,
         rows |-> wmic.rows,
         ran |-> instance = << >>,
         raised |-> made.raised,
         returned |-> IF made.raised THEN << >> ELSE made.instance]

\* valid_printer, lines 52-61, against the singleton's list
valid_printer(name, instance) ==
    IF \E k \in DOMAIN instance.printers : instance.printers[k] = name
    THEN name
    ELSE "ArgumentTypeError"

NumberChoices == {"odd", "even", "all"}
LogChoices == {"DEBUG", "INFO", "WARNING", "ERROR", "CRITICAL"}

SystemExit2 == "SystemExit(2)"

\* the module's ARGS before main() assigns it (line 23)
ARGS_None == [printer |-> None, number |-> None, log |-> None]

\* mutant: -n is declared without choices=
parse_command_line_args_NoChoices(args, instance, wmic) ==
    LET made == Printers_new(instance, wmic)
        printers == made.instance[1]
        default == printers.default_printer
        p == IF args.p # None THEN valid_printer(args.p, printers)
             ELSE IF default # None THEN valid_printer(default, printers)
             ELSE None
        n == IF args.n # None THEN args.n ELSE "all"
        l == IF args.l # None THEN args.l ELSE "INFO"
    IN  IF made.raised
        THEN [error |-> "CalledProcessError", namespace |-> ARGS_None,
              instance |-> made.instance]
        ELSE IF p = "ArgumentTypeError" \/ l \notin LogChoices
        THEN [error |-> SystemExit2, namespace |-> ARGS_None,
              instance |-> made.instance]
        ELSE [error |-> "none",
              namespace |-> [printer |-> p, number |-> n, log |-> l],
              instance |-> made.instance]

\* parse_command_line_args, lines 64-75: [error, namespace, instance], the
\* error being none, SystemExit(2) of argparse, or the error of wmic.
\* argparse passes a string default through type= as it does an argument.
parse_command_line_args(args, instance, wmic) ==
    LET made == Printers_new(instance, wmic)
        printers == made.instance[1]
        default == printers.default_printer
        p == IF args.p # None THEN valid_printer(args.p, printers)
             ELSE IF default # None THEN valid_printer(default, printers)
             ELSE None
        n == IF args.n # None THEN args.n ELSE "all"
        l == IF args.l # None THEN args.l ELSE "INFO"
    IN  IF made.raised
        THEN [error |-> "CalledProcessError", namespace |-> ARGS_None,
              instance |-> made.instance]
        ELSE IF p = "ArgumentTypeError" \/ n \notin NumberChoices
                \/ l \notin LogChoices
        THEN [error |-> SystemExit2, namespace |-> ARGS_None,
              instance |-> made.instance]
        ELSE [error |-> "none",
              namespace |-> [printer |-> p, number |-> n, log |-> l],
              instance |-> made.instance]

\* the systems and command lines main() is started on
Systems ==
    [platform : {"Windows", "Linux"},
     GOOGLE_APPLICATION_CREDENTIALS : {None, "path.json"},
     subscription_exists : BOOLEAN,
     wmic : {WMIC_ERROR, WMIC_OUTPUT_ONE_DEFAULT, WMIC_OUTPUT_NO_DEFAULT,
             WMIC_OUTPUT_NO_PRINTERS},
     args : [p : {None, "Fax", "INVALID"},
             n : {None, "even", "bogus"},
             l : {None, "DEBUG", "bogus"}]]

\* the messages published while main() runs
MainMessages ==
    [attributes : {AttributesOf(Unbound, Unbound, Unbound, Unbound),
                   AttributesOf("test_integration", "1234", Unbound, Unbound)},
     data : {<<"M", "T", "I", "z", "N", "A", "=", "=">>, <<"%", "2", "3", "4">>},
     message_id : {"message_id"}]

\* the process before main() runs: ARGS = None (line 23), no Printers instance
InitMain ==
    /\ ARGS = ARGS_None
    /\ message \in MainMessages
    /\ firestore = "ok"
    /\ print_queue = {}
    /\ printer = "ok"
    /\ system \in Systems
    /\ Printers_instance = << >>
    /\ proc = [pc |-> "start", error |-> "none"]
    /\ calls = << >>
    /\ inv = [i \in Deliveries |-> NotDelivered]

Exited(error) == [pc |-> "exited", error |-> error]

\* line 81
MainPlatform ==
    /\ proc.pc = "start"
    /\ proc' = IF system.platform = "Windows"
               THEN [proc EXCEPT !.pc = "credentials"]
               ELSE Exited("AssertionError: This program only runs on Windows!")
    /\ UNCHANGED <<ARGS, message, print_queue, printer, firestore, system,
                   Printers_instance, calls, inv>>

\* lines 83-86
MainCredentials ==
    /\ proc.pc = "credentials"
    /\ proc' = IF system.GOOGLE_APPLICATION_CREDENTIALS = None
               THEN Exited("RuntimeError: GOOGLE_APPLICATION_CREDENTIALS environment variable not set")
               ELSE [proc EXCEPT !.pc = "parse"]
    /\ UNCHANGED <<ARGS, message, print_queue, printer, firestore, system,
                   Printers_instance, calls, inv>>

\* lines 88-89 (and the logging set-up of lines 91-101)
MainParse ==
    /\ proc.pc = "parse"
    /\ LET parsed == parse_command_line_args(system.args, Printers_instance,
                                             system.wmic)
           first == Construction(Printers_instance, system.wmic)
           \* valid_printer constructs Printers() again (line 59) when argparse
           \* has a printer name to convert: the option, else a string default
           again == IF first.raised
                       \/ (system.args.p = None
                           /\ first.returned[1].default_printer = None)
                    THEN << >>
                    ELSE <<Construction(parsed.instance, system.wmic)>>
       IN  /\ Printers_instance' = parsed.instance
           /\ calls' = Append(calls, first) \o again
           /\ IF parsed.error # "none"
              THEN proc' = Exited(parsed.error) /\ UNCHANGED ARGS
              ELSE proc' = [proc EXCEPT !.pc = "subscription"]
                   /\ ARGS' = parsed.namespace
    /\ UNCHANGED <<message, print_queue, printer, firestore, system, inv>>

\* mutant: the subscription is not looked up before subscribing
MainSubscription_NoCheck ==
    /\ proc.pc = "subscription"
    /\ proc' = [proc EXCEPT !.pc = "subscribe"]
    /\ UNCHANGED <<ARGS, message, print_queue, printer, firestore, system,
                   Printers_instance, calls, inv>>

\* lines 103-110
MainSubscription ==
    /\ proc.pc = "subscription"
    /\ proc' = IF system.subscription_exists
               THEN [proc EXCEPT !.pc = "subscribe"]
               ELSE Exited("RuntimeError: Subscription projects/print-client-123456/subscriptions/print_queue does not exist")
    /\ UNCHANGED <<ARGS, message, print_queue, printer, firestore, system,
                   Printers_instance, calls, inv>>

\* lines 112-119: subscribe, then block forever
MainSubscribe ==
    /\ proc.pc = "subscribe"
    /\ proc' = [proc EXCEPT !.pc = "listening"]
    /\ UNCHANGED <<ARGS, message, print_queue, printer, firestore, system,
                   Printers_instance, calls, inv>>

NextMain ==
    \/ MainPlatform
    \/ MainCredentials
    \/ MainParse
    \/ MainSubscription
    \/ MainSubscribe
    \/ Next

SpecMain == InitMain /\ [][NextMain]_vars

-----------------------------------------------------------------------------
(* Printers() constructed again and again in one process *)

\* number of constructions Printers() one process makes
MaxConstructions == 4

\* what wmic answers at the time of a construction
WmicOutputs == {WMIC_ERROR, WMIC_OUTPUT_ONE_DEFAULT, WMIC_OUTPUT_NO_DEFAULT,
                WMIC_OUTPUT_NO_PRINTERS}

\* a process that has not constructed Printers() yet (line 27)
InitPrinters ==
    /\ ARGS = ARGS_None
    /\ message = [attributes |-> AttributesOf(Unbound, Unbound, Unbound, Unbound),
                  data |-> << >>, message_id |-> "message_id"]
    /\ firestore = "ok"
    /\ print_queue = {}
    /\ printer = "ok"
    /\ system = StartedSystem
    /\ Printers_instance = << >>
    /\ proc = [pc |-> "start", error |-> "none"]
    /\ calls = << >>
    /\ inv = [i \in Deliveries |-> NotDelivered]

\* Printers(), lines 29-49, with wmic answering w at that time
Printers_call(w) ==
    /\ Len(calls) < MaxConstructions
    /\ system' = [system EXCEPT !.wmic = w]
    /\ Printers_instance' = Printers_new(Printers_instance, w).instance
    /\ calls' = Append(calls, Construction(Printers_instance, w))
    /\ UNCHANGED <<ARGS, message, print_queue, printer, firestore, proc, inv>>

NextPrinters == \E w \in WmicOutputs : Printers_call(w)

SpecPrinters == InitPrinters /\ [][NextPrinters]_vars

-----------------------------------------------------------------------------
(* What the claims speak of *)

\* the strings of OrderNumberValues that int() accepts, and their values
IntStrings == {"-3", "0", "1234", "5679"}

IntOf(str) ==
    CASE str = "-3" -> 0 - 3
      [] str = "0" -> 0
      [] str = "1234" -> 1234
      [] OTHER -> 5679

HasEventId == "event_id" \in DOMAIN message.attributes
HasIntOrderNumber == Get(message.attributes, "order_number") \in IntStrings
ValidAttributes == HasEventId /\ HasIntOrderNumber
HasReprint == "reprint" \in DOMAIN message.attributes
Decodable == b64decode(message.data) # binascii_Error
OrderNumber == IntOf(Get(message.attributes, "order_number"))

\* the filter policy of the specification
Accepts(n, mode) ==
    CASE mode = "even" -> n % 2 = 0
      [] mode = "odd" -> n % 2 = 1
      [] OTHER -> TRUE

FilterAccepted == Accepts(OrderNumber, ARGS.number)

\* the ledger's records for the message's order, before the callback ran and
\* those a callback added for this message
LedgerRecords == {r \in print_queue : r.order_number = OrderNumber}
AddedRecords == {r \in LedgerRecords : r.message_id = message.message_id}
AlreadyPrinted == LedgerRecords \ AddedRecords # {}

HasEnded(i) == inv[i].pc \in Ended
AllEnded == \A i \in Deliveries : HasEnded(i)
OnlyDelivery(i) ==
    HasEnded(i) /\ \A j \in Deliveries \ {i} : inv[j].pc = "undelivered"

RECURSIVE SumPrints(_)
SumPrints(n) == IF n = 0 THEN 0 ELSE inv[n].prints + SumPrints(n - 1)
TotalPrints == SumPrints(MaxDeliveries)

AckedOnce(i) == inv[i].acks = 1 /\ inv[i].nacks = 0
NackedOnce(i) == inv[i].nacks = 1 /\ inv[i].acks = 0

-----------------------------------------------------------------------------
(* Claims *)

\* C1 (as claimed): when the same valid, filter-accepted, decodable message
\* without reprint flag has been delivered two or more times and the print
\* command succeeds, the print action ran exactly once over all deliveries
\* and every delivery was acknowledged.
C1_IdempotentRedelivery ==
    (/\ ValidAttributes /\ FilterAccepted /\ Decodable /\ ~HasReprint
     /\ printer = "ok"
     /\ MaxDeliveries >= 2 /\ AllEnded)
    => (TotalPrints = 1 /\ \A i \in Deliveries : AckedOnce(i))

\* C2 (as claimed): a valid, decodable message under mode 'all' with no ledger
\* record for its order and a succeeding print command is printed exactly
\* once by one invocation, which adds exactly one ledger record, acks once
\* and never nacks.
C2_CleanPrint ==
    \A i \in Deliveries :
        (/\ ValidAttributes /\ Decodable /\ ARGS.number = "all"
         /\ ~AlreadyPrinted /\ printer = "ok" /\ OnlyDelivery(i))
        => (/\ inv[i].prints = 1
            /\ Cardinality(AddedRecords) = 1
            /\ AckedOnce(i))

\* C3 (as claimed): with a ledger record for the message's order and no
\* reprint attribute, an invocation that reaches the duplicate check (valid
\* attributes, accepted by the filter) does not print, acks once and never
\* nacks.
C3_DuplicateSuppressed ==
    \A i \in Deliveries :
        (/\ ValidAttributes /\ FilterAccepted /\ AlreadyPrinted /\ ~HasReprint
         /\ HasEnded(i))
        => (inv[i].prints = 0 /\ AckedOnce(i))

\* C4 (as claimed): with a ledger record for the message's order and the
\* reprint attribute present, an invocation with a succeeding print command
\* prints exactly once, appends a ledger record, acks once and never nacks.
C4_ReprintBypass ==
    \A i \in Deliveries :
        (/\ ValidAttributes /\ FilterAccepted /\ Decodable /\ AlreadyPrinted
         /\ HasReprint /\ printer = "ok" /\ OnlyDelivery(i))
        => (/\ inv[i].prints = 1
            /\ AddedRecords # {}
            /\ AckedOnce(i))

\* C5 (as claimed): for a valid, filter-accepted, non-duplicate, decodable
\* message whose print command fails, the invocation nacks once, never acks
\* and has attempted the print action exactly once.
C5_TransientFailureRetry ==
    \A i \in Deliveries :
        (/\ ValidAttributes /\ FilterAccepted /\ Decodable /\ ~AlreadyPrinted
         /\ printer = "failing" /\ HasEnded(i))
        => (inv[i].prints = 1 /\ NackedOnce(i))

\* C6 (as claimed): for a message with valid attributes (accepted by the
\* filter, not a duplicate) whose payload does not decode from base64, the
\* invocation never prints, acks once and never nacks.
C6_BadPayload ==
    \A i \in Deliveries :
        (/\ ValidAttributes /\ FilterAccepted /\ ~AlreadyPrinted /\ ~Decodable
         /\ HasEnded(i))
        => (inv[i].prints = 0 /\ AckedOnce(i))

\* C7 (as claimed): for a message with valid attributes whose order number
\* the mode excludes (even under 'odd', odd under 'even'), the invocation
\* never prints, nacks once and never acks.
C7_FilteredOut ==
    \A i \in Deliveries :
        (/\ ValidAttributes /\ ~FilterAccepted /\ HasEnded(i))
        => (inv[i].prints = 0 /\ NackedOnce(i))

\* C8 (as claimed): the filter of lines 201-203 accepts N under 'even' iff
\* N % 2 = 0 and under 'odd' iff N % 2 = 1, zero and negative N included,
\* and a message with valid attributes is nacked for filter reasons (nack
\* without a print attempt) exactly when the filter does not accept it.
C8_FilterCorrectness ==
    /\ \A n \in {IntOf(str) : str \in IntStrings} :
         \A mode \in {"even", "odd"} :
            ~filter_skips(n, mode) <=> Accepts(n, mode)
    /\ \A i \in Deliveries :
         (ValidAttributes /\ HasEnded(i))
         => ((inv[i].nacks = 1 /\ inv[i].prints = 0) <=> ~FilterAccepted)

\* C9: a message whose attribute dict is empty fails
\* validate_message_attributes, and the invocation acks exactly once, never
\* nacks and never prints, whatever the mode, the payload and the printer.
C9_EmptyAttributes ==
    \A i \in Deliveries :
        (DOMAIN message.attributes = {} /\ inv[i].pc # "undelivered")
        => /\ validate_message_attributes(message) = "ValueError"
           /\ inv[i].nacks = 0 /\ inv[i].prints = 0 /\ inv[i].acks <= 1
           /\ inv[i].pc \in {"validate", "returned"}
           /\ HasEnded(i) => inv[i].acks = 1

\* C9 witness: an invocation on a message without attributes has returned
C9_Witness ==
    \E i \in Deliveries :
        DOMAIN message.attributes = {} /\ inv[i].pc = "returned"

\* C10 (as claimed): a message with an order number but no event_id fails
\* validation, and the invocation acks once, never nacks and never prints.
C10_MissingEventId ==
    \A i \in Deliveries :
        (/\ DOMAIN message.attributes # {} /\ HasIntOrderNumber /\ ~HasEventId
         /\ HasEnded(i))
        => (/\ validate_message_attributes(message) # "ok"
            /\ inv[i].prints = 0
            /\ AckedOnce(i))


\* C11 (as claimed): a message with other attributes and an event id but no
\* order_number fails validation, and the invocation acks once, never nacks
\* and never prints.
C11_MissingOrderNumber ==
    \A i \in Deliveries :
        (/\ HasEventId /\ "another_attr" \in DOMAIN message.attributes
         /\ "order_number" \notin DOMAIN message.attributes
         /\ HasEnded(i))
        => (/\ validate_message_attributes(message) # "ok"
            /\ inv[i].prints = 0
            /\ AckedOnce(i))

\* C12 (as claimed): a message whose order_number is present but is not an
\* integer fails validation, and the invocation acks once, never nacks and
\* never prints.
C12_InvalidOrderNumber ==
    \A i \in Deliveries :
        (/\ "order_number" \in DOMAIN message.attributes
         /\ ~HasIntOrderNumber
         /\ HasEnded(i))
        => (/\ validate_message_attributes(message) # "ok"
            /\ inv[i].prints = 0
            /\ AckedOnce(i))


\* C13 (as claimed): when the duplicate query against the ledger fails, a
\* valid, filter-accepted, decodable message with a succeeding print command
\* is printed exactly once and acked once, never nacked.
C13_LedgerUnavailableOnRead ==
    \A i \in Deliveries :
        (/\ firestore = "where_fails"
         /\ ValidAttributes /\ FilterAccepted /\ Decodable /\ printer = "ok"
         /\ HasEnded(i))
        => (inv[i].prints = 1 /\ AckedOnce(i))

\* C14 (as claimed): when the print command succeeds and the ledger write
\* after it fails, the invocation still acks once, never nacks, and has
\* printed once only.
C14_LedgerWriteFailure ==
    \A i \in Deliveries :
        (/\ firestore = "add_fails"
         /\ ValidAttributes /\ FilterAccepted /\ Decodable /\ printer = "ok"
         /\ HasEnded(i))
        => (inv[i].prints = 1 /\ AckedOnce(i))

\* C15 (as claimed): every invocation that has ended has called exactly one
\* of ack() and nack(), exactly once: none ends with neither or with both.
C15_ExactlyOneOutcome ==
    \A i \in Deliveries :
        HasEnded(i) => inv[i].acks + inv[i].nacks = 1

\* C16 (as claimed): no exception propagates out of the callback, for any
\* message, mode and printer.
C16_NoErrorEscapes ==
    \A i \in Deliveries : inv[i].pc # "raised"


\* C17: an invocation that created the temp file and has ended, by return or
\* by exception, left it closed and removed from disk; a temp file is on
\* disk only while its invocation is running.
C17_TempFileScoped ==
    \A i \in Deliveries :
        /\ (HasEnded(i) /\ inv[i].file # "none")
           => (inv[i].file = "closed" /\ ~inv[i].on_disk)
        /\ inv[i].on_disk => inv[i].pc \in Running

\* C17 witness: an invocation whose payload did not decode returned with its
\* temp file, never closed inside the scope, closed and removed
C17_Witness ==
    \E i \in Deliveries :
        /\ inv[i].pc = "returned" /\ inv[i].after = "return"
        /\ inv[i].file = "closed" /\ ~inv[i].on_disk

\* C18: when the invocation is at the print command (lines 238-248) the temp
\* file is closed, is still on disk and holds the whole decoded payload;
\* whatever the print command was run on was such a file; and the file is
\* removed only by __exit__, after the print step.
C18_NoPartialOutput ==
    \A i \in Deliveries :
        /\ inv[i].pc = "print"
           => /\ inv[i].file = "closed" /\ inv[i].on_disk
              /\ inv[i].flushed = b64decode(message.data)
        /\ inv[i].prints > 0
           => inv[i].printed_file =
                 [file |-> "closed", on_disk |-> TRUE,
                  flushed |-> b64decode(message.data)]
        /\ (inv[i].file # "none" /\ ~inv[i].on_disk) => HasEnded(i)

\* C18 witness: an invocation stands at the print command with b'1234'
\* flushed to its closed temp file
C18_Witness ==
    \E i \in Deliveries :
        /\ inv[i].pc = "print" /\ inv[i].file = "closed" /\ inv[i].on_disk
        /\ inv[i].flushed = <<49, 50, 51, 52>>


\* C19 (as claimed): at most one invocation of the callback is in flight at
\* any time under the flow-control limit main() subscribes with.
C19_OneInFlight ==
    Cardinality(InFlight) <= 1


\* C20: main() subscribes only on Windows, with GOOGLE_APPLICATION_CREDENTIALS
\* set and with the subscription print_queue existing; the checks are made in
\* that order, each failing with its own error (AssertionError, RuntimeError,
\* RuntimeError 'Subscription ... does not exist'); and unless main() has
\* subscribed, no delivery is ever handed to the callback.
C20_StartupGating ==
    /\ proc.pc \in {"subscribe", "listening"}
       => /\ system.platform = "Windows"
          /\ system.GOOGLE_APPLICATION_CREDENTIALS # None
          /\ system.subscription_exists
    /\ (system.platform # "Windows" /\ proc.pc # "start")
       => proc = Exited("AssertionError: This program only runs on Windows!")
    /\ (/\ system.platform = "Windows"
        /\ system.GOOGLE_APPLICATION_CREDENTIALS = None
        /\ proc.pc \notin {"start", "credentials"})
       => proc = Exited("RuntimeError: GOOGLE_APPLICATION_CREDENTIALS environment variable not set")
    /\ (/\ system.platform = "Windows"
        /\ system.GOOGLE_APPLICATION_CREDENTIALS # None
        /\ ~system.subscription_exists
        /\ ARGS # ARGS_None
        /\ proc.pc # "subscription")
       => proc = Exited("RuntimeError: Subscription projects/print-client-123456/subscriptions/print_queue does not exist")
    /\ proc.pc # "listening"
       => \A i \in Deliveries : inv[i] = NotDelivered

\* C20 witness: on Windows with credentials, main() stopped at the missing
\* subscription and no message was delivered
C20_Witness ==
    /\ system.platform = "Windows"
    /\ ~system.subscription_exists
    /\ proc = Exited("RuntimeError: Subscription projects/print-client-123456/subscriptions/print_queue does not exist")
    /\ \A i \in Deliveries : inv[i] = NotDelivered


\* wmic has run and succeeded in the k-th construction or before it
Discovered(k) == \E j \in 1 .. k : calls[j].ran /\ ~calls[j].wmic_raised

\* C21: a construction Printers() made while wmic fails, no discovery having
\* succeeded before it, raises the error: the first such construction and
\* every later one; no construction returns an object whose list no
\* successful discovery filled.

C21_DiscoveryFailureNeverHidden ==
    \A k \in DOMAIN calls :
        /\ (calls[k].wmic_raised /\ ~Discovered(k)) => calls[k].raised
        /\ calls[k].returned # << >> => Discovered(k)



\* parse_command_line_args has been called by main()
ParseCalled == Len(calls) > 0
\* the names wmic lists on this system
DetectedPrinters ==
    {system.wmic.rows[k].Name : k \in DOMAIN system.wmic.rows}

\* C22: once main() has called parse_command_line_args on a system whose
\* printers were detected, a -p name that is not a detected printer, a -n
\* mode outside {odd, even, all} or an unknown -l level has ended the
\* process with SystemExit(2); so whenever the callback has been handed a
\* delivery, ARGS.number is one of all, even, odd.
C22_ConfigurationValidated ==
    /\ (/\ ParseCalled
        /\ ~system.wmic.raised
        /\ \/ system.args.p \notin DetectedPrinters \cup {None}
           \/ system.args.n \notin NumberChoices \cup {None}
           \/ system.args.l \notin LogChoices \cup {None})
       => proc = Exited(SystemExit2)
    /\ \A i \in Deliveries :
           inv[i].pc # "undelivered" => ARGS.number \in NumberChoices

\* the mode bogus has ended the process, and no delivery was handed over
C22_Witness ==
    /\ ParseCalled
    /\ system.args.n = "bogus"
    /\ system.args.p = None
    /\ system.args.l = None
    /\ proc = Exited(SystemExit2)
    /\ \A i \in Deliveries : inv[i].pc = "undelivered"


C24_NoAckWithoutOutcome ==
    \A i \in Deliveries :
        inv[i].acks > 0 =>
            \/ validate_message_attributes(message) # "ok"
            \/ ~Decodable
            \/ /\ inv[i].prints = 1
               /\ subprocess_run(printer) = "ok"
               /\ inv[i].pc = "returned"

\* an invocation has acknowledged a validated message whose payload did not
\* decode, without printing
C24_Witness ==
    \E i \in Deliveries :
        /\ inv[i].pc = "returned"
        /\ inv[i].acks = 1
        /\ inv[i].prints = 0
        /\ ValidAttributes
        /\ ~Decodable


\* C25: an invocation sleeps only after a failed print.  When the print
\* command fails for a valid, accepted, decodable, unprinted message, the
\* ended invocation has called nack once and then waited SLEEP_SECONDS; an
\* invocation that ended any other way has not waited.
C25_BackoffOnlyOnPrintFailure ==
    \A i \in Deliveries :
        HasEnded(i) =>
            IF /\ ValidAttributes /\ FilterAccepted /\ Decodable
               /\ firestore = "ok" /\ ~AlreadyPrinted
               /\ subprocess_run(printer) # "ok"
            THEN NackedOnce(i) /\ inv[i].slept = SLEEP_SECONDS
            ELSE inv[i].slept = 0


\* the ledger records the deliveries of this message have added
LedgerAdded == {r \in print_queue : r.message_id = message.message_id}

\* C26: the ledger holds a record added by an invocation only if that
\* invocation ran the print command and the command succeeded; invocations
\* that end in nack or in a discard add none.
C26_LedgerFollowsPrint ==
    LedgerAdded # {} =>
        \E i \in Deliveries :
            /\ inv[i].prints = 1
            /\ subprocess_run(printer) = "ok"
            /\ inv[i].pc \in {"exit", "returned"}

\* an invocation has discarded a message with an ack and added no record
C26_Witness ==
    /\ LedgerAdded = {}
    /\ \E i \in Deliveries :
           inv[i].pc = "returned" /\ inv[i].acks = 1 /\ inv[i].prints = 0


\* C27: no step of an invocation changes or removes a ledger record; a step
\* adds at most one record.
C27_LedgerAppendOnly ==
    [][/\ print_queue \subseteq print_queue'
       /\ Cardinality(print_queue') <= Cardinality(print_queue) + 1]_vars

\* every delivery has ended and the record the ledger held is still there
C27_Witness ==
    /\ AllEnded
    /\ \E i \in Deliveries : inv[i].file = "closed"
    /\ print_queue = {[order_number |-> 1234, message_id |-> "12345"]}


\* C28: when the print command fails (it ran and exited with an error, or
\* the shell could not start it: both are a non-zero exit status to
\* subprocess.run) for a valid, accepted, decodable, unprinted message, the
\* ended invocation has attempted the print, called nack exactly once and
\* ack never, and has returned normally.
C28_PrintFailureTransient ==
    \A i \in Deliveries :
        (/\ HasEnded(i)
         /\ ValidAttributes /\ FilterAccepted /\ Decodable
         /\ firestore = "ok" /\ ~AlreadyPrinted
         /\ subprocess_run(printer) # "ok")
        => /\ inv[i].pc = "returned"
           /\ inv[i].prints = 1
           /\ NackedOnce(i)

\* C29: when the print command succeeds and every delivery of a valid,
\* accepted, decodable message has ended, one of them has acknowledged the
\* message, after a successful print or for a duplicate.
C29_EventualAck ==
    (/\ AllEnded
     /\ ValidAttributes /\ FilterAccepted /\ Decodable
     /\ firestore = "ok"
     /\ subprocess_run(printer) = "ok")
    => /\ \E i \in Deliveries : AckedOnce(i)
       /\ TotalPrints >= 1 \/ (AlreadyPrinted /\ ~HasReprint)

SuccessfulPrints == IF subprocess_run(printer) = "ok" THEN TotalPrints ELSE 0

Outcome(i) ==
    [pc |-> inv[i].pc, error |-> inv[i].error, acks |-> inv[i].acks,
     nacks |-> inv[i].nacks, prints |-> inv[i].prints, slept |-> inv[i].slept]

\* C32: the invocations that have ended on the same message, configuration,
\* ledger and printer have the same outcome, whatever ran before them or
\* beside them; and no step of an invocation changes the configuration, the
\* Printers singleton, the ledger or anything else outside the invocation.
C32_NoInvocationMemory ==
    /\ [](\A i, j \in Deliveries :
              (HasEnded(i) /\ HasEnded(j)) => Outcome(i) = Outcome(j))
    /\ [][UNCHANGED others]_vars

\* a later delivery of a valid message has ended as the first did, with the
\* error of the filter
C32_Witness ==
    /\ ValidAttributes
    /\ inv[1].pc = "raised"
    /\ inv[2].pc = "raised"
    /\ Outcome(1) = Outcome(2)


NamesOf(rows) == [k \in DOMAIN rows |-> rows[k].Name]
\* the members of a list
Members(list) == {list[k] : k \in DOMAIN list}

\* C34: in one process, wmic is not run again once it has run with success;
\* the constructions that return an object all return the same one, the
\* singleton; its list is the names of the rows of the successful discovery,
\* in their order; and its default_printer is None or a member of the list.
C34_SingletonOneDiscovery ==
    /\ \A k \in DOMAIN calls :
           calls[k].ran => ~\E j \in 1 .. k - 1 : Discovered(j)
    /\ \A j, k \in DOMAIN calls :
           (calls[j].returned # << >> /\ calls[k].returned # << >>)
           => /\ calls[j].returned = calls[k].returned
              /\ calls[k].returned = Printers_instance
    /\ \A j, k \in DOMAIN calls :
           (/\ j <= k
            /\ calls[j].ran /\ ~calls[j].wmic_raised
            /\ calls[k].returned # << >>)
           => calls[k].returned[1].printers = NamesOf(calls[j].rows)
    /\ \A k \in DOMAIN calls :
           calls[k].returned # << >>
           => calls[k].returned[1].default_printer
                 \in {None} \cup Members(calls[k].returned[1].printers)

\* a second construction, made while wmic fails, has returned the object the
\* first one built from a discovery that found a default printer
C34_Witness ==
    /\ Len(calls) >= 2
    /\ calls[1].ran /\ ~calls[1].wmic_raised
    /\ calls[2].wmic_raised /\ ~calls[2].ran
    /\ calls[2].returned = calls[1].returned
    /\ calls[2].returned[1].default_printer # None


\* main() is past parse_command_line_args, which returned a namespace
ParseReturned ==
    /\ ParseCalled
    /\ proc # Exited(SystemExit2)
    /\ proc # Exited("CalledProcessError")

\* C35: once parse_command_line_args has returned, with or without -p and
\* with or without a default printer on the system, ARGS.printer is the name
\* of a detected printer; it is not None.
C35_ConfiguredPrinterExists ==
    ParseReturned => ARGS.printer \in DetectedPrinters

=============================================================================
